---- MODULE Spec2Model ----
(***************************************************************************)
(* A model of the sage_mqtt packet codec: the property framework           *)
(* (Property, PropertiesDecoder) and the Auth, PubAck, Publish and SubAck  *)
(* framings.  Bytes are integers 0..255, byte strings are sequences of     *)
(* bytes, Option<T> is a sequence of length 0 (None) or 1 (Some).          *)
(* A reader is the pair (source, pos); a std::io::Take over it is a limit  *)
(* that every read decrements.                                             *)
(***************************************************************************)
EXTENDS Integers, Sequences, FiniteSets, TLC

VARIABLES
    pc,        \* "idle" | "written" | "props" | "codes" | "done"
    kind,      \* the framing at work: "Auth" | "PubAck" | "Publish" | "SubAck",
               \* or "Property" (Property::encode), "Bool" (read_bool), "none"
    value,     \* the packet (or property) value handed to write
    sink,      \* the bytes the writer holds after write
    wres,      \* what write returned: [err, n]
    source,    \* the bytes of the reader handed to read
    pos,       \* how many bytes of source have been consumed
    ctx,       \* read's context parameters (shortened / flags / remaining_size)
    rlimit,    \* limit of the outer reader.take(remaining_size) (Publish, SubAck)
    dec,       \* the PropertiesDecoder: [limit, marked, len, start]
    acc,       \* the fields read so far
    last,      \* the last PropertiesDecoder::read: [id, err, n, calls, end]
    result,    \* what read returned: [tag, err, val]
    input,     \* how the source was made: [origin, items, declared, cut]
    peer       \* a second decode, on its own source, while it is not running

vars == << pc, kind, value, sink, wres, source, pos, ctx, rlimit, dec, acc,
           last, result, input, peer >>

----------------------------------------------------------------------------
(* Bounds of the model *)

\* the longest list (properties of a region, user properties, subscription
\* identifiers, reason codes) an input is drawn with
MaxProps == 2

----------------------------------------------------------------------------
(* Primitive codec *)

Min(a, b) == IF a < b THEN a ELSE b

Ok(v, n) == [err |-> "none", v |-> v, n |-> n]

Fail(e, n) == [err |-> e, v |-> 0, n |-> n]

\* read_exact of one byte: the byte, or UnexpectedEof
read_byte(w) == IF Len(w) >= 1 THEN Ok(w[1], 1) ELSE Fail("Io", 0)

read_bool_nonzero(w) ==
    LET b == read_byte(w) IN
    IF b.err # "none" THEN b
    ELSE IF b.v = 0 THEN Ok(FALSE, 1)
    ELSE Ok(TRUE, 1)

\* a boolean is one byte restricted to {0, 1}
read_bool(w) ==
    LET b == read_byte(w) IN
    IF b.err # "none" THEN b
    ELSE IF b.v = 0 THEN Ok(FALSE, 1)
    ELSE IF b.v = 1 THEN Ok(TRUE, 1)
    ELSE Fail("ProtocolError", 1)

write_bool(data) == << IF data THEN 1 ELSE 0 >>

write_two_byte_integer(v) == << v \div 256, v % 256 >>

read_two_byte_integer(w) ==
    IF Len(w) >= 2 THEN Ok(w[1] * 256 + w[2], 2) ELSE Fail("Io", Len(w))

write_four_byte_integer(v) ==
    << v \div 16777216, (v \div 65536) % 256, (v \div 256) % 256, v % 256 >>

read_four_byte_integer(w) ==
    IF Len(w) >= 4
    THEN Ok(((w[1] * 256 + w[2]) * 256 + w[3]) * 256 + w[4], 4)
    ELSE Fail("Io", Len(w))

\* variable byte integer: 7 bits per byte, least significant group first,
\* top bit set on every byte but the last
RECURSIVE write_variable_byte_integer(_)
write_variable_byte_integer(v) ==
    IF v < 128 THEN << v >>
    ELSE << (v % 128) + 128 >> \o write_variable_byte_integer(v \div 128)

RECURSIVE vbi_from(_, _, _, _)
vbi_from(w, i, mult, sum) ==
    IF i > Len(w) THEN Fail("Io", Len(w))
    ELSE IF w[i] < 128 THEN Ok(sum + w[i] * mult, i)
    ELSE IF i = 4 THEN Fail("MalformedPacket", 4)
    ELSE vbi_from(w, i + 1, mult * 128, sum + (w[i] - 128) * mult)

read_variable_byte_integer(w) == vbi_from(w, 1, 1, 0)

\* text and binary data: a two byte length, then that many bytes
write_utf8_string(s) == write_two_byte_integer(Len(s)) \o s

read_utf8_string(w) ==
    LET l == read_two_byte_integer(w) IN
    IF l.err # "none" THEN Fail(l.err, l.n)
    ELSE IF Len(w) - 2 >= l.v THEN Ok(SubSeq(w, 3, 2 + l.v), 2 + l.v)
    ELSE Fail("Io", Len(w))

\* the bytes a reader of source `src` at position `p` yields under a
\* std::io::Take of `limit`
Window(src, p, limit) == SubSeq(src, p + 1, p + Min(limit, Len(src) - p))

----------------------------------------------------------------------------
(* Reason codes and quality of service *)

ReasonCode ==
    [ Success |-> 0, GrantedQoS1 |-> 1, GrantedQoS2 |-> 2,
      NoMatchingSubscribers |-> 16, ContinueAuthentication |-> 24,
      ReAuthenticate |-> 25, UnspecifiedError |-> 128,
      ImplementationSpecificError |-> 131, NotAuthorized |-> 135,
      TopicFilterInvalid |-> 143, TopicNameInvalid |-> 144,
      PacketIdentifierInUse |-> 145, QuotaExceeded |-> 151,
      PayloadFormatInvalid |-> 153, SharedSubscriptionsNotSupported |-> 158,
      SubscriptionIdentifiersNotSupported |-> 161,
      WildcardSubscriptionsNotSupported |-> 162 ]

\* the codes legal in each packet kind
LegalCodes(k) ==
    CASE k = "Auth"   -> {0, 24, 25}
      [] k = "PubAck" -> {0, 16, 128, 131, 135, 144, 145, 151, 153}
      [] k = "SubAck" -> {0, 1, 2, 128, 131, 135, 143, 145, 151, 158, 161, 162}
      [] OTHER -> {}

try_parse(byte, k) ==
    IF byte \in LegalCodes(k) THEN Ok(byte, 1) ELSE Fail("ProtocolError", 1)

QoS == [AtMostOnce |-> 0, AtLeastOnce |-> 1, ExactlyOnce |-> 2]

----------------------------------------------------------------------------
(* Property: identifiers, defaults, decoding and encoding *)

PropertyId ==
    [ PayloadFormatIndicator |-> 1, MessageExpiryInterval |-> 2,
      ContentType |-> 3, ResponseTopic |-> 8, CorrelationData |-> 9,
      SubscriptionIdentifier |-> 11, SessionExpiryInterval |-> 17,
      AssignedClientIdentifier |-> 18, ServerKeepAlive |-> 19,
      AuthenticationMethod |-> 21, AuthenticationData |-> 22,
      RequestProblemInformation |-> 23, WillDelayInterval |-> 24,
      RequestResponseInformation |-> 25, ResponseInformation |-> 26,
      ServerReference |-> 28, ReasonString |-> 31, ReceiveMaximum |-> 33,
      TopicAliasMaximum |-> 34, TopicAlias |-> 35, MaximumQoS |-> 36,
      RetainAvailable |-> 37, UserProperty |-> 38, MaximumPacketSize |-> 39,
      WildcardSubscriptionAvailable |-> 40,
      SubscriptionIdentifierAvailable |-> 41,
      SharedSubscriptionAvailable |-> 42 ]

PropertyIds == { PropertyId[f] : f \in DOMAIN PropertyId }

\* PropertyId::decode: a variable byte integer naming a known property
PropertyId_decode(w) ==
    LET r == read_variable_byte_integer(w) IN
    IF r.err # "none" THEN r
    ELSE IF r.v \in PropertyIds THEN r
    ELSE Fail("ProtocolError", r.n)

DEFAULT_PAYLOAD_FORMAT_INDICATOR == FALSE
DEFAULT_SESSION_EXPIRY_INTERVAL == 0
DEFAULT_REQUEST_PROBLEM_INFORMATION == TRUE
DEFAULT_WILL_DELAY_INTERVAL == 0
DEFAULT_REQUEST_RESPONSE_INFORMATION == FALSE
DEFAULT_RECEIVE_MAXIMUM == 65535
DEFAULT_TOPIC_ALIAS_MAXIMUM == 0
DEFAULT_MAXIMUM_QOS == 2
DEFAULT_RETAIN_AVAILABLE == TRUE
DEFAULT_WILCARD_SUBSCRIPTION_AVAILABLE == TRUE
DEFAULT_SHARED_SUBSCRIPTION_AVAILABLE == TRUE

BoolIds == {1, 23, 25, 37, 40, 41, 42}
FourByteIds == {2, 17, 24, 39}
TwoByteIds == {19, 33, 34, 35}
StringIds == {3, 8, 18, 21, 26, 28, 31}
BinaryIds == {9, 22}

\* a decoded value under the id of its variant
Prop(id, v, r) == [err |-> r.err, id |-> id, v |-> v, n |-> r.n]

read_receive_maximum_any(w) ==
    LET r == read_two_byte_integer(w) IN Prop(33, r.v, r)

\* the PropertyId::ReceiveMaximum arm of read_property_value
read_receive_maximum(w) ==
    LET r == read_two_byte_integer(w) IN
    IF r.err = "none" /\ r.v = 0
    THEN Prop(33, 0, Fail("MalformedPacket", r.n))
    ELSE Prop(33, r.v, r)

read_subscription_identifier_any(w) ==
    LET r == read_variable_byte_integer(w) IN Prop(11, r.v, r)

\* the PropertyId::SubscriptionIdentifier arm of read_property_value
read_subscription_identifier(w) ==
    LET r == read_variable_byte_integer(w) IN
    IF r.err = "none" /\ r.v = 0
    THEN Prop(11, 0, Fail("ProtocolError", r.n))
    ELSE Prop(11, r.v, r)

\* PropertiesDecoder::read_property_value: the payload of property `id` read
\* from the bytes `w` the bounded reader can still yield
read_property_value(w, id) ==
    IF id \in {1, 23, 25} THEN
        LET b == read_byte(w) IN
        IF b.err # "none" THEN Prop(id, FALSE, b)
        ELSE IF b.v = 0 THEN Prop(id, FALSE, b)
        ELSE IF b.v = 1 THEN Prop(id, TRUE, b)
        ELSE Prop(id, FALSE, Fail("ProtocolError", 1))
    ELSE IF id \in {37, 40, 41, 42} THEN
        LET b == read_bool(w) IN
        Prop(id, IF b.err = "none" THEN b.v ELSE FALSE, b)
    ELSE IF id \in FourByteIds THEN
        LET r == read_four_byte_integer(w) IN Prop(id, r.v, r)
    ELSE IF id = 33 THEN read_receive_maximum(w)
    ELSE IF id \in TwoByteIds THEN
        LET r == read_two_byte_integer(w) IN Prop(id, r.v, r)
    ELSE IF id \in StringIds \cup BinaryIds THEN
        LET r == read_utf8_string(w) IN
        Prop(id, IF r.err = "none" THEN r.v ELSE <<>>, r)
    ELSE IF id = 11 THEN read_subscription_identifier(w)
    ELSE IF id = 36 THEN
        LET b == read_byte(w) IN
        IF b.err = "none" /\ b.v > 2
        THEN Prop(id, 0, Fail("ProtocolError", 1))
        ELSE Prop(id, b.v, b)
    ELSE \* 38, UserProperty: two strings
        LET k == read_utf8_string(w) IN
        IF k.err # "none" THEN Prop(id, << <<>>, <<>> >>, k)
        ELSE
            LET v == read_utf8_string(SubSeq(w, k.n + 1, Len(w))) IN
            IF v.err # "none"
            THEN Prop(id, << <<>>, <<>> >>, Fail(v.err, k.n + v.n))
            ELSE Prop(id, << k.v, v.v >>, Ok(0, k.n + v.n))

\* the default a variant's value is elided at, if it has one
HasDefault(id) == id \in {1, 17, 23, 24, 25, 33, 34, 36, 37, 40, 42}

DefaultOf(id) ==
    CASE id = 1  -> DEFAULT_PAYLOAD_FORMAT_INDICATOR
      [] id = 17 -> DEFAULT_SESSION_EXPIRY_INTERVAL
      [] id = 23 -> DEFAULT_REQUEST_PROBLEM_INFORMATION
      [] id = 24 -> DEFAULT_WILL_DELAY_INTERVAL
      [] id = 25 -> DEFAULT_REQUEST_RESPONSE_INFORMATION
      [] id = 33 -> DEFAULT_RECEIVE_MAXIMUM
      [] id = 34 -> DEFAULT_TOPIC_ALIAS_MAXIMUM
      [] id = 36 -> DEFAULT_MAXIMUM_QOS
      [] id = 37 -> DEFAULT_RETAIN_AVAILABLE
      [] id = 40 -> DEFAULT_WILCARD_SUBSCRIPTION_AVAILABLE
      [] id = 42 -> DEFAULT_SHARED_SUBSCRIPTION_AVAILABLE

\* the payload bytes of a variant's value
PayloadBytes(id, v) ==
    IF id \in BoolIds THEN write_bool(v)
    ELSE IF id \in FourByteIds THEN write_four_byte_integer(v)
    ELSE IF id \in TwoByteIds THEN write_two_byte_integer(v)
    ELSE IF id \in StringIds \cup BinaryIds THEN write_utf8_string(v)
    ELSE IF id = 11 THEN write_variable_byte_integer(v)
    ELSE IF id = 36 THEN << v >>
    ELSE write_utf8_string(v[1]) \o write_utf8_string(v[2])

Written(bytes) == [err |-> "none", bytes |-> bytes]

NotWritten(e) == [err |-> e, bytes |-> <<>>]

Property_encode_no_elision(id, v) ==
    IF id = 11 /\ v = 0 THEN NotWritten("ProtocolError")
    ELSE IF id = 33 /\ v = 0 THEN NotWritten("MalformedPacket")
    ELSE Written(write_variable_byte_integer(id) \o PayloadBytes(id, v))

\* Property::encode: the bytes appended to the writer (their count is the
\* returned n_bytes), or the error
Property_encode(id, v) ==
    IF id = 11 /\ v = 0 THEN NotWritten("ProtocolError")
    ELSE IF id = 33 /\ v = 0 THEN NotWritten("MalformedPacket")
    ELSE IF HasDefault(id) /\ v = DefaultOf(id) THEN Written(<<>>)
    ELSE Written(write_variable_byte_integer(id) \o PayloadBytes(id, v))

\* a list of properties encoded one after the other into the properties
\* buffer; the first error ends the write (the `?` after each encode)
RECURSIVE encode_all(_, _)
encode_all(props, buf) ==
    IF props = <<>> THEN Written(buf)
    ELSE LET e == Property_encode(props[1].id, props[1].v) IN
         IF e.err # "none" THEN NotWritten(e.err)
         ELSE encode_all(Tail(props), buf \o e.bytes)

P(id, v) == [id |-> id, v |-> v]

\* an Option field as the list of properties it contributes
Opt(id, o) == IF o = <<>> THEN <<>> ELSE << P(id, o[1]) >>

Each(id, vs) == [i \in 1..Len(vs) |-> P(id, vs[i])]

----------------------------------------------------------------------------
(* PropertiesDecoder *)

NoDecoder == [limit |-> 0, marked |-> {}, len |-> 0, start |-> 0]

\* PropertiesDecoder::take: the region length, then a Take of that length
\* with an empty set of seen ids.  `p` is the reader's position.
PropertiesDecoder_take(w, p) ==
    LET l == read_variable_byte_integer(w) IN
    [err |-> l.err, n |-> l.n,
     dec |-> [limit |-> l.v, marked |-> {}, len |-> l.v, start |-> p + l.n]]

has_properties(d) == d.limit > 0

Insert_unchecked(marked, id) == [fresh |-> TRUE, marked |-> marked \cup {id}]

\* HashSet::insert: whether the id was new, and the set afterwards
Insert(marked, id) == [fresh |-> id \notin marked, marked |-> marked \cup {id}]

\* PropertiesDecoder::read over the bytes `w` its reader can still yield:
\* the property (or the error), the bytes consumed and the seen ids
PropertiesDecoder_read(d, w) ==
    LET pid == PropertyId_decode(w) IN
    IF pid.err # "none"
    THEN [err |-> pid.err, id |-> 0, v |-> 0, n |-> pid.n, marked |-> d.marked]
    ELSE LET ins == IF pid.v # PropertyId.UserProperty
                    THEN Insert(d.marked, pid.v)
                    ELSE [fresh |-> TRUE, marked |-> d.marked] IN
         IF ~ins.fresh
         THEN [err |-> "ProtocolError", id |-> pid.v, v |-> 0, n |-> pid.n,
               marked |-> ins.marked]
         ELSE LET r == read_property_value(SubSeq(w, pid.n + 1, Len(w)), pid.v) IN
              [err |-> r.err, id |-> pid.v, v |-> r.v, n |-> pid.n + r.n,
               marked |-> ins.marked]

----------------------------------------------------------------------------
(* The state of one write and one read *)

NoValue == [none |-> TRUE]
NoWrite == [err |-> "none", n |-> 0]
NoCtx == [none |-> TRUE]
NoAcc == [none |-> TRUE]
NoRead == [id |-> 0, err |-> "none", n |-> 0, calls |-> 0, end |-> 0]
NoResult == [tag |-> "none"]
NoInput == [origin |-> "none", items |-> <<>>, declared |-> 0, cut |-> 0]

\* a decode that has not begun
NoPeer ==
    [pc |-> "idle", kind |-> "none", source |-> <<>>, pos |-> 0, ctx |-> NoCtx,
     rlimit |-> 0, dec |-> NoDecoder, acc |-> NoAcc, last |-> NoRead,
     result |-> NoResult, input |-> NoInput]

Good(val) == [tag |-> "Ok", val |-> val]
Err(e) == [tag |-> "Err", err |-> e]

\* the framings that wrap their reader in reader.take(remaining_size)
Outer(k) == k \in {"Publish", "SubAck"}

Rest(src, p) == SubSeq(src, p + 1, Len(src))

\* where the part of read before the properties loop ends: in an error or a
\* returned value (Stop), or at the loop with a decoder and the fields so far
Stop(p, rl, res) ==
    [go |-> FALSE, pos |-> p, rl |-> rl, dec |-> NoDecoder, acc |-> NoAcc,
     res |-> res]

Go(p, rl, d, a) ==
    [go |-> TRUE, pos |-> p, rl |-> rl, dec |-> d, acc |-> a, res |-> NoResult]

Begin(k, src, c, inp, h) ==
    /\ pc' = IF h.go THEN "props" ELSE "done"
    /\ kind' = k
    /\ source' = src
    /\ ctx' = c
    /\ input' = inp
    /\ pos' = h.pos
    /\ rlimit' = h.rl
    /\ dec' = h.dec
    /\ acc' = h.acc
    /\ last' = NoRead
    /\ result' = h.res
    /\ UNCHANGED << value, sink, wres, peer >>

Return(res) ==
    /\ pc' = "done"
    /\ result' = res
    /\ UNCHANGED << kind, value, sink, wres, source, ctx, input, dec, acc, last,
                    peer >>

Wrote(k, x, w) ==
    /\ pc' = "written"
    /\ kind' = k
    /\ value' = x
    /\ sink' = w.sink
    /\ wres' = [err |-> w.err, n |-> w.n]
    /\ UNCHANGED << source, pos, ctx, rlimit, dec, acc, last, result, input,
                    peer >>

----------------------------------------------------------------------------
(* PubAck *)

PubAck_write(x) ==
    LET head == write_two_byte_integer(x.packet_identifier)
        props == encode_all(Opt(31, x.reason_string)
                            \o Each(38, x.user_properties), <<>>)
        n_bytes == Len(head) + Len(props.bytes)
    IN  IF props.err # "none"
        THEN [err |-> props.err, n |-> 0, sink |-> head]
        ELSE IF n_bytes = 2 /\ x.reason_code # ReasonCode.Success
        THEN [err |-> "none", n |-> 2, sink |-> head]
        ELSE LET l == write_variable_byte_integer(Len(props.bytes)) IN
             [err |-> "none", n |-> n_bytes + 1 + Len(l),
              sink |-> head \o << x.reason_code >> \o l \o props.bytes]

PubAck_default(id) ==
    [packet_identifier |-> id, reason_code |-> ReasonCode.Success,
     reason_string |-> <<>>, user_properties |-> <<>>]

\* PubAck::read after the packet identifier when the packet is not shortened:
\* the reason code and PropertiesDecoder::take
PubAck_read_rest(src, id) ==
    LET b == read_byte(Rest(src, 2)) IN
    IF b.err # "none" THEN Stop(2, 0, Err(b.err))
    ELSE LET rc == try_parse(b.v, "PubAck") IN
         IF rc.err # "none" THEN Stop(3, 0, Err(rc.err))
         ELSE LET t == PropertiesDecoder_take(Rest(src, 3), 3) IN
              IF t.err # "none" THEN Stop(3 + t.n, 0, Err(t.err))
              ELSE Go(3 + t.n, 0, t.dec,
                      [PubAck_default(id) EXCEPT !.reason_code = rc.v])

PubAck_read_head_unshortened(src, shortened) ==
    LET id == read_two_byte_integer(src) IN
    IF id.err # "none" THEN Stop(id.n, 0, Err(id.err))
    ELSE PubAck_read_rest(src, id.v)

\* PubAck::read up to the properties loop
PubAck_read_head(src, shortened) ==
    LET id == read_two_byte_integer(src) IN
    IF id.err # "none" THEN Stop(id.n, 0, Err(id.err))
    ELSE IF shortened THEN Stop(2, 0, Good(PubAck_default(id.v)))
    ELSE PubAck_read_rest(src, id.v)

\* the match of PubAck::read's loop on a property that was read
PubAck_arm(a, p) ==
    IF p.id = PropertyId.ReasonString
    THEN [err |-> "none", acc |-> [a EXCEPT !.reason_string = << p.v >>]]
    ELSE IF p.id = PropertyId.UserProperty
    THEN [err |-> "none", acc |-> [a EXCEPT !.user_properties = Append(@, p.v)]]
    ELSE [err |-> "ProtocolError", acc |-> a]

\* the end of PubAck::read: the loop is over, the value is returned
PubAck_read_end ==
    /\ pc = "props"
    /\ kind = "PubAck"
    /\ ~has_properties(dec)
    /\ Return(Good(acc))
    /\ UNCHANGED << pos, rlimit >>

----------------------------------------------------------------------------
(* Auth *)

\* Authentication::encode: the method, then the data
Authentication_encode(a) == << P(21, a.method), P(22, a.data) >>

Auth_write(x) ==
    LET head == << x.reason_code >>
        props == encode_all(Authentication_encode(x.authentication)
                            \o Opt(31, x.reason_string)
                            \o Each(38, x.user_properties), <<>>)
    IN  IF props.err # "none"
        THEN [err |-> props.err, n |-> 0, sink |-> head]
        ELSE LET l == write_variable_byte_integer(Len(props.bytes)) IN
             [err |-> "none", n |-> 1 + Len(props.bytes) + Len(l),
              sink |-> head \o l \o props.bytes]

\* Auth::read up to the properties loop
Auth_read_head(src) ==
    LET b == read_byte(src) IN
    IF b.err # "none" THEN Stop(0, 0, Err(b.err))
    ELSE LET rc == try_parse(b.v, "Auth") IN
         IF rc.err # "none" THEN Stop(1, 0, Err(rc.err))
         ELSE LET t == PropertiesDecoder_take(Rest(src, 1), 1) IN
              IF t.err # "none" THEN Stop(1 + t.n, 0, Err(t.err))
              ELSE Go(1 + t.n, 0, t.dec,
                      [reason_code |-> rc.v, reason_string |-> <<>>,
                       authentication_method |-> <<>>,
                       authentication_data |-> <<>>,
                       user_properties |-> <<>>])

Auth_arm(a, p) ==
    IF p.id = PropertyId.ReasonString
    THEN [err |-> "none", acc |-> [a EXCEPT !.reason_string = << p.v >>]]
    ELSE IF p.id = PropertyId.UserProperty
    THEN [err |-> "none", acc |-> [a EXCEPT !.user_properties = Append(@, p.v)]]
    ELSE IF p.id = PropertyId.AuthenticationMethod
    THEN [err |-> "none", acc |-> [a EXCEPT !.authentication_method = << p.v >>]]
    ELSE IF p.id = PropertyId.AuthenticationData
    THEN [err |-> "none", acc |-> [a EXCEPT !.authentication_data = p.v]]
    ELSE [err |-> "ProtocolError", acc |-> a]

Auth_finish_default_method(a) ==
    Good([reason_code |-> a.reason_code,
          authentication |->
              [method |-> IF a.authentication_method # <<>>
                          THEN a.authentication_method[1] ELSE <<>>,
               data |-> a.authentication_data],
          reason_string |-> a.reason_string,
          user_properties |-> a.user_properties])

\* what Auth::read returns once the loop is over
Auth_finish(a) ==
    IF a.authentication_method # <<>>
    THEN Good([reason_code |-> a.reason_code,
               authentication |-> [method |-> a.authentication_method[1],
                                   data |-> a.authentication_data],
               reason_string |-> a.reason_string,
               user_properties |-> a.user_properties])
    ELSE Err("ProtocolError")

Auth_read_end ==
    /\ pc = "props"
    /\ kind = "Auth"
    /\ ~has_properties(dec)
    /\ Return(Auth_finish(acc))
    /\ UNCHANGED << pos, rlimit >>

----------------------------------------------------------------------------
(* Publish *)

has_packet_identifier_always(qos) == TRUE

\* `qos != QoS::AtMostOnce`: the packet identifier is on the wire
has_packet_identifier(qos) == qos # QoS.AtMostOnce

Publish_properties(x) ==
    << P(1, x.payload_format_indicator) >>
    \o Opt(2, x.message_expiry_interval)
    \o Opt(35, x.topic_alias)
    \o Opt(8, x.response_topic)
    \o Opt(9, x.correlation_data)
    \o Each(38, x.user_properties)
    \o Each(11, x.subscription_identifiers)
    \o << P(3, x.content_type) >>

Publish_write(x) ==
    LET topic == write_utf8_string(x.topic_name) IN
    IF has_packet_identifier(x.qos) /\ x.packet_identifier = <<>>
    THEN [err |-> "ProtocolError", n |-> 0, sink |-> topic]
    ELSE LET id == IF has_packet_identifier(x.qos)
                   THEN write_two_byte_integer(x.packet_identifier[1])
                   ELSE <<>>
             props == encode_all(Publish_properties(x), <<>>)
         IN  IF props.err # "none"
             THEN [err |-> props.err, n |-> 0, sink |-> topic \o id]
             ELSE LET l == write_variable_byte_integer(Len(props.bytes)) IN
                  [err |-> "none",
                   n |-> Len(topic) + Len(id) + Len(props.bytes) + Len(l)
                         + Len(x.message),
                   sink |-> topic \o id \o l \o props.bytes \o x.message]

\* Publish::read up to the properties loop, under reader.take(remaining_size)
Publish_read_head(src, qos, remaining_size) ==
    LET topic == read_utf8_string(Window(src, 0, remaining_size)) IN
    IF topic.err # "none"
    THEN Stop(topic.n, remaining_size - topic.n, Err(topic.err))
    ELSE LET p1 == topic.n
             l1 == remaining_size - topic.n
             id == IF has_packet_identifier(qos)
                   THEN read_two_byte_integer(Window(src, p1, l1))
                   ELSE Ok(0, 0)
         IN  IF id.err # "none" THEN Stop(p1 + id.n, l1 - id.n, Err(id.err))
             ELSE LET p2 == p1 + id.n
                      l2 == l1 - id.n
                      t == PropertiesDecoder_take(Window(src, p2, l2), p2)
                  IN  IF t.err # "none"
                      THEN Stop(p2 + t.n, l2 - t.n, Err(t.err))
                      ELSE Go(p2 + t.n, l2 - t.n, t.dec,
                              [topic_name |-> topic.v,
                               packet_identifier |->
                                   IF has_packet_identifier(qos) THEN << id.v >>
                                   ELSE <<>>,
                               payload_format_indicator |->
                                   DEFAULT_PAYLOAD_FORMAT_INDICATOR,
                               message_expiry_interval |-> <<>>,
                               topic_alias |-> <<>>,
                               response_topic |-> <<>>,
                               correlation_data |-> <<>>,
                               user_properties |-> <<>>,
                               subscription_identifiers |-> <<>>,
                               content_type |-> <<>>])

Publish_arm(a, p) ==
    IF p.id = PropertyId.PayloadFormatIndicator
    THEN [err |-> "none", acc |-> [a EXCEPT !.payload_format_indicator = p.v]]
    ELSE IF p.id = PropertyId.MessageExpiryInterval
    THEN [err |-> "none", acc |-> [a EXCEPT !.message_expiry_interval = << p.v >>]]
    ELSE IF p.id = PropertyId.TopicAlias
    THEN [err |-> "none", acc |-> [a EXCEPT !.topic_alias = << p.v >>]]
    ELSE IF p.id = PropertyId.ResponseTopic
    THEN [err |-> "none", acc |-> [a EXCEPT !.response_topic = << p.v >>]]
    ELSE IF p.id = PropertyId.CorrelationData
    THEN [err |-> "none", acc |-> [a EXCEPT !.correlation_data = << p.v >>]]
    ELSE IF p.id = PropertyId.UserProperty
    THEN [err |-> "none", acc |-> [a EXCEPT !.user_properties = Append(@, p.v)]]
    ELSE IF p.id = PropertyId.SubscriptionIdentifier
    THEN [err |-> "none",
          acc |-> [a EXCEPT !.subscription_identifiers = Append(@, p.v)]]
    ELSE IF p.id = PropertyId.ContentType
    THEN [err |-> "none", acc |-> [a EXCEPT !.content_type = p.v]]
    ELSE [err |-> "ProtocolError", acc |-> a]

\* the value Publish::read builds from the fields read, the context and the
\* rest of the bounded reader
Publish_finish(a, c, message) ==
    [duplicate |-> c.duplicate, qos |-> c.qos, retain |-> c.retain,
     topic_name |-> a.topic_name,
     packet_identifier |-> a.packet_identifier,
     payload_format_indicator |-> a.payload_format_indicator,
     message_expiry_interval |-> a.message_expiry_interval,
     topic_alias |-> a.topic_alias,
     response_topic |-> a.response_topic,
     correlation_data |-> a.correlation_data,
     user_properties |-> a.user_properties,
     subscription_identifiers |-> a.subscription_identifiers,
     content_type |-> a.content_type,
     message |-> message]

Publish_read_end_unbounded ==
    /\ pc = "props"
    /\ kind = "Publish"
    /\ ~has_properties(dec)
    /\ LET message == Rest(source, pos) IN
        /\ pos' = pos + Len(message)
        /\ rlimit' = rlimit - Len(message)
        /\ Return(Good(Publish_finish(acc, ctx, message)))

\* the end of Publish::read: read_to_end of the bounded reader is the message
Publish_read_end ==
    /\ pc = "props"
    /\ kind = "Publish"
    /\ ~has_properties(dec)
    /\ LET message == Window(source, pos, rlimit) IN
        /\ pos' = pos + Len(message)
        /\ rlimit' = rlimit - Len(message)
        /\ Return(Good(Publish_finish(acc, ctx, message)))

----------------------------------------------------------------------------
(* SubAck *)

SubAck_write_codes_uncounted(x) ==
    LET head == write_two_byte_integer(x.packet_identifier)
        props == encode_all(Each(38, x.user_properties), <<>>)
    IN  IF props.err # "none"
        THEN [err |-> props.err, n |-> 0, sink |-> head]
        ELSE LET l == write_variable_byte_integer(Len(props.bytes)) IN
             [err |-> "none",
              n |-> Len(head) + Len(props.bytes) + Len(l),
              sink |-> head \o l \o props.bytes \o x.reason_codes]

SubAck_write(x) ==
    LET head == write_two_byte_integer(x.packet_identifier)
        props == encode_all(Each(38, x.user_properties), <<>>)
    IN  IF props.err # "none"
        THEN [err |-> props.err, n |-> 0, sink |-> head]
        ELSE LET l == write_variable_byte_integer(Len(props.bytes)) IN
             [err |-> "none",
              n |-> Len(head) + Len(props.bytes) + Len(l) + Len(x.reason_codes),
              sink |-> head \o l \o props.bytes \o x.reason_codes]

\* SubAck::read up to the properties loop, under reader.take(remaining_size)
SubAck_read_head(src, remaining_size) ==
    LET id == read_two_byte_integer(Window(src, 0, remaining_size)) IN
    IF id.err # "none" THEN Stop(id.n, remaining_size - id.n, Err(id.err))
    ELSE LET t == PropertiesDecoder_take(Window(src, 2, remaining_size - 2), 2) IN
         IF t.err # "none"
         THEN Stop(2 + t.n, remaining_size - 2 - t.n, Err(t.err))
         ELSE Go(2 + t.n, remaining_size - 2 - t.n, t.dec,
                 [packet_identifier |-> id.v, user_properties |-> <<>>,
                  reason_codes |-> <<>>])

SubAck_arm_with_reason_string(a, p) ==
    IF p.id = PropertyId.UserProperty
    THEN [err |-> "none", acc |-> [a EXCEPT !.user_properties = Append(@, p.v)]]
    ELSE IF p.id = PropertyId.ReasonString
    THEN [err |-> "none", acc |-> a]
    ELSE [err |-> "ProtocolError", acc |-> a]

\* the match of SubAck::read's loop on a property that was read
SubAck_arm(a, p) ==
    IF p.id = PropertyId.UserProperty
    THEN [err |-> "none", acc |-> [a EXCEPT !.user_properties = Append(@, p.v)]]
    ELSE [err |-> "ProtocolError", acc |-> a]

\* one turn of SubAck::read's second loop: a reason code per remaining byte
SubAck_read_code ==
    /\ kind = "SubAck"
    /\ (pc = "props" /\ ~has_properties(dec)) \/ pc = "codes"
    /\ rlimit > 0
    /\ LET b == read_byte(Window(source, pos, rlimit))
           rc == IF b.err = "none" THEN try_parse(b.v, "SubAck") ELSE b
       IN  /\ pos' = pos + b.n
           /\ rlimit' = rlimit - b.n
           /\ IF rc.err = "none"
              THEN /\ pc' = "codes"
                   /\ acc' = [acc EXCEPT !.reason_codes = Append(@, rc.v)]
                   /\ UNCHANGED << kind, value, sink, wres, source, ctx, input,
                                   dec, last, result, peer >>
              ELSE Return(Err(rc.err))

SubAck_read_end_at_first_code ==
    /\ kind = "SubAck"
    /\ (pc = "props" /\ ~has_properties(dec)) \/ pc = "codes"
    /\ rlimit = 0 \/ pc = "codes"
    /\ Return(Good(acc))
    /\ UNCHANGED << pos, rlimit >>

\* the end of SubAck::read: `reader.limit() > 0` is false, the value is returned
SubAck_read_end ==
    /\ kind = "SubAck"
    /\ (pc = "props" /\ ~has_properties(dec)) \/ pc = "codes"
    /\ rlimit = 0
    /\ Return(Good(acc))
    /\ UNCHANGED << pos, rlimit >>

----------------------------------------------------------------------------
(* The properties loop shared by the four framings *)

Arm(k, a, p) ==
    CASE k = "Auth"    -> Auth_arm(a, p)
      [] k = "PubAck"  -> PubAck_arm(a, p)
      [] k = "Publish" -> Publish_arm(a, p)
      [] k = "SubAck"  -> SubAck_arm(a, p)

Reach_of_inner_reader(k, d, rl) == IF Outer(k) THEN rl ELSE 268435455

\* the limit of the decoder's reader, itself under the outer Take if any
Reach(k, d, rl) == IF Outer(k) THEN Min(d.limit, rl) ELSE d.limit

read_property_past_the_region ==
    /\ pc = "props"
    /\ has_properties(dec)
    /\ LET r == PropertiesDecoder_read(dec, Rest(source, pos))
           a == IF r.err = "none" THEN Arm(kind, acc, r)
                ELSE [err |-> r.err, acc |-> acc]
       IN  /\ pos' = pos + r.n
           /\ rlimit' = rlimit
           /\ dec' = [dec EXCEPT !.marked = r.marked]
           /\ last' = [id |-> r.id, err |-> r.err, n |-> r.n,
                       calls |-> last.calls + 1, end |-> pos + r.n]
           /\ acc' = a.acc
           /\ IF a.err = "none"
              THEN pc' = "props" /\ result' = NoResult
              ELSE pc' = "done" /\ result' = Err(a.err)
           /\ UNCHANGED << kind, value, sink, wres, source, ctx, input, peer >>

\* one turn of `while properties.has_properties() { match properties.read()? }`
read_property ==
    /\ pc = "props"
    /\ has_properties(dec)
    /\ LET r == PropertiesDecoder_read(dec, Window(source, pos, Reach(kind, dec, rlimit)))
           a == IF r.err = "none" THEN Arm(kind, acc, r)
                ELSE [err |-> r.err, acc |-> acc]
       IN  /\ pos' = pos + r.n
           /\ rlimit' = IF Outer(kind) THEN rlimit - r.n ELSE rlimit
           /\ dec' = [dec EXCEPT !.limit = @ - r.n, !.marked = r.marked]
           /\ last' = [id |-> r.id, err |-> r.err, n |-> r.n,
                       calls |-> last.calls + 1, end |-> pos + r.n]
           /\ acc' = a.acc
           /\ IF a.err = "none"
              THEN pc' = "props" /\ result' = NoResult
              ELSE pc' = "done" /\ result' = Err(a.err)
           /\ UNCHANGED << kind, value, sink, wres, source, ctx, input, peer >>

----------------------------------------------------------------------------
(* A read as one call: what it returns for a source and a context *)

\* the part of read before the properties loop
read_head(k, src, c) ==
    CASE k = "Auth"    -> Auth_read_head(src)
      [] k = "PubAck"  -> PubAck_read_head(src, c.shortened)
      [] k = "Publish" -> Publish_read_head(src, c.qos, c.remaining_size)
      [] k = "SubAck"  -> SubAck_read_head(src, c.remaining_size)

\* SubAck::read's reason code loop, run to its end
RECURSIVE read_codes(_, _, _, _)
read_codes(src, p, rl, a) ==
    IF rl > 0
    THEN LET b == read_byte(Window(src, p, rl))
             rc == IF b.err = "none" THEN try_parse(b.v, "SubAck") ELSE b
         IN  IF rc.err # "none" THEN Err(rc.err)
             ELSE read_codes(src, p + 1, rl - 1,
                             [a EXCEPT !.reason_codes = Append(@, rc.v)])
    ELSE Good(a)

\* the part of read after the properties loop
read_tail(k, src, c, p, rl, a) ==
    CASE k = "Auth"    -> Auth_finish(a)
      [] k = "PubAck"  -> Good(a)
      [] k = "Publish" -> Good(Publish_finish(a, c, Window(src, p, rl)))
      [] k = "SubAck"  -> read_codes(src, p, rl, a)

\* the properties loop run to its end, then the rest of read
RECURSIVE read_loop(_, _, _, _, _, _, _)
read_loop(k, src, c, p, rl, d, a) ==
    IF has_properties(d)
    THEN LET r == PropertiesDecoder_read(d, Window(src, p, Reach(k, d, rl)))
             m == IF r.err = "none" THEN Arm(k, a, r)
                  ELSE [err |-> r.err, acc |-> a]
         IN  IF m.err # "none" THEN Err(m.err)
             ELSE read_loop(k, src, c, p + r.n,
                            IF Outer(k) THEN rl - r.n ELSE rl,
                            [d EXCEPT !.limit = @ - r.n, !.marked = r.marked],
                            m.acc)
    ELSE read_tail(k, src, c, p, rl, a)

\* read(reader, context) of framing `k`, run alone from call to return
read(k, src, c) ==
    LET h == read_head(k, src, c) IN
    IF h.go THEN read_loop(k, src, c, h.pos, h.rl, h.dec, h.acc) ELSE h.res

----------------------------------------------------------------------------
(* The inputs the operations are tried on *)

SeqsUpTo(S, n) == UNION { [1..k -> S] : k \in 0..n }

Text == << 97 >>
Key == << 107 >>
Data == << 13 >>
UserPool == { << Key, << 118 >> >>, << Key, << 119 >> >> }

\* a value of each variant
Sample(id) ==
    IF id \in BoolIds THEN TRUE
    ELSE IF id \in FourByteIds THEN 17
    ELSE IF id \in TwoByteIds THEN 451
    ELSE IF id \in StringIds THEN Text
    ELSE IF id \in BinaryIds THEN Data
    ELSE IF id = 11 THEN 34
    ELSE IF id = 36 THEN 1
    ELSE << Key, << 118 >> >>

\* a property on the wire: its id and the bytes of its payload
Item(id, payload) == [id |-> id, payload |-> payload]

ItemBytes(it) == write_variable_byte_integer(it.id) \o it.payload

RECURSIVE Region(_)
Region(items) ==
    IF items = <<>> THEN <<>> ELSE ItemBytes(items[1]) \o Region(Tail(items))

\* every variant with a payload that decodes, and the payloads the decoder
\* must refuse: a boolean of 2, a subscription identifier of 0, a receive
\* maximum of 0
WireProps ==
    { Item(id, PayloadBytes(id, Sample(id))) : id \in PropertyIds }
    \cup { Item(1, << 2 >>), Item(11, << 0 >>), Item(11, << 32 >>),
           Item(33, << 0, 0 >>), Item(38, PayloadBytes(38, << Key, << 119 >> >>)) }

CoreProps ==
    { Item(id, PayloadBytes(id, Sample(id))) : id \in {11, 21, 31, 38} }

ItemSeqs == SeqsUpTo(WireProps, MaxProps)

CoreSeqs == SeqsUpTo(CoreProps, MaxProps)

Framed(head, items, declared, tail) ==
    head \o write_variable_byte_integer(declared) \o Region(items) \o tail

Wire(items, declared, cut) ==
    [origin |-> "wire", items |-> items, declared |-> declared, cut |-> cut]

Back == [origin |-> "back", items |-> <<>>, declared |-> 0, cut |-> 0]

Lists == { l \in SeqsUpTo(UserPool, MaxProps) \X SeqsUpTo({0, 34, 200}, MaxProps) :
             Len(l[1]) + Len(l[2]) <= MaxProps }

PubAckValues ==
    [packet_identifier : {0, 1337}, reason_code : {0, 16, 151},
     reason_string : {<<>>, << <<>> >>, << Text >>},
     user_properties : SeqsUpTo(UserPool, MaxProps)]

AuthValues ==
    [reason_code : {0, 24},
     authentication : [method : {Text}, data : {<<>>, Data}],
     reason_string : {<<>>, << Text >>},
     user_properties : SeqsUpTo(UserPool, MaxProps)]

SubAckValues ==
    [packet_identifier : {1337},
     user_properties : SeqsUpTo(UserPool, MaxProps),
     reason_codes : SeqsUpTo({0, 1, 128}, MaxProps)]

\* the optional scalar fields: none, some, all
Options ==
    { [mei |-> <<>>, alias |-> <<>>, resp |-> <<>>, corr |-> <<>>],
      [mei |-> << 17 >>, alias |-> <<>>, resp |-> <<>>, corr |-> << Data >>],
      [mei |-> << 17 >>, alias |-> << 451 >>, resp |-> << Text >>,
       corr |-> << Data >>] }

\* content type and message
Bodies == { << <<>>, <<>> >>, << <<>>, << 1, 2 >> >>, << Text, << 1, 2 >> >> }

PublishValue(dup, q, id, pfi, o, l, b) ==
    [duplicate |-> dup, qos |-> q, retain |-> ~dup, topic_name |-> Text,
     packet_identifier |-> id, payload_format_indicator |-> pfi,
     message_expiry_interval |-> o.mei, topic_alias |-> o.alias,
     response_topic |-> o.resp, correlation_data |-> o.corr,
     user_properties |-> l[1], subscription_identifiers |-> l[2],
     content_type |-> b[1], message |-> b[2]]

\* the values Property::encode is tried on, named by variant and case: a
\* sample value, the variant's default, zero, another value
PropertyCases ==
    { << id, "sample" >> : id \in PropertyIds }
    \cup { << id, "default" >> : id \in {1, 17, 23, 24, 25, 33, 34, 36, 37, 40, 42} }
    \cup { << id, "zero" >> : id \in {11, 19, 33, 35} }
    \cup { << id, "other" >> : id \in {11, 33, 41} }

PropertyValue(c) ==
    IF c[2] = "sample" THEN P(c[1], Sample(c[1]))
    ELSE IF c[2] = "default" THEN P(c[1], DefaultOf(c[1]))
    ELSE IF c[2] = "zero" THEN P(c[1], 0)
    ELSE IF c[1] = 41 THEN P(41, FALSE)
    ELSE P(c[1], 200)

\* the property Property::encode was handed
Encoded == PropertyValue(<< value.id, value.case >>)

----------------------------------------------------------------------------
(* Initial state and actions *)

Init ==
    /\ pc = "idle"
    /\ kind = "none"
    /\ value = NoValue
    /\ sink = <<>>
    /\ wres = NoWrite
    /\ source = <<>>
    /\ pos = 0
    /\ ctx = NoCtx
    /\ rlimit = 0
    /\ dec = NoDecoder
    /\ acc = NoAcc
    /\ last = NoRead
    /\ result = NoResult
    /\ input = NoInput
    /\ peer = NoPeer

\* Property::encode into an empty buffer; `value` names the property encoded
\* by its variant and case
EncodeProperty ==
    /\ pc = "idle"
    /\ \E c \in PropertyCases :
         LET p == PropertyValue(c)
             e == Property_encode(p.id, p.v) IN
         Wrote("Property", [id |-> c[1], case |-> c[2]],
               [err |-> e.err, n |-> Len(e.bytes), sink |-> e.bytes])

WritePubAck ==
    /\ pc = "idle"
    /\ \E x \in PubAckValues : Wrote("PubAck", x, PubAck_write(x))

WriteAuth ==
    /\ pc = "idle"
    /\ \E x \in AuthValues : Wrote("Auth", x, Auth_write(x))

WriteSubAck ==
    /\ pc = "idle"
    /\ \E x \in SubAckValues : Wrote("SubAck", x, SubAck_write(x))

WritePublish ==
    /\ pc = "idle"
    /\ \E dup \in BOOLEAN, q \in {0, 1, 2}, id \in {<<>>, << 1337 >>},
          pfi \in BOOLEAN, o \in Options, l \in Lists, b \in Bodies :
         LET x == PublishValue(dup, q, id, pfi, o, l, b) IN
         Wrote("Publish", x, Publish_write(x))

\* read of what write produced, with the context write's caller knows
ReadBackPubAck ==
    /\ pc = "written" /\ kind = "PubAck" /\ wres.err = "none"
    /\ LET c == [shortened |-> (wres.n = 2)] IN
       Begin("PubAck", sink, c, Back, PubAck_read_head(sink, c.shortened))

ReadBackAuth ==
    /\ pc = "written" /\ kind = "Auth" /\ wres.err = "none"
    /\ Begin("Auth", sink, NoCtx, Back, Auth_read_head(sink))

ReadBackPublish ==
    /\ pc = "written" /\ kind = "Publish" /\ wres.err = "none"
    /\ LET c == [duplicate |-> value.duplicate, qos |-> value.qos,
                 retain |-> value.retain, remaining_size |-> wres.n] IN
       Begin("Publish", sink, c, Back, Publish_read_head(sink, c.qos, c.remaining_size))

ReadBackSubAck ==
    /\ pc = "written" /\ kind = "SubAck" /\ wres.err = "none"
    /\ LET c == [remaining_size |-> wres.n] IN
       Begin("SubAck", sink, c, Back, SubAck_read_head(sink, c.remaining_size))

\* read of bytes from the wire: a region of any properties framed exactly,
\* a region declared shorter or longer than its properties, a source that
\* ends early
PubAckFrom(src, shortened, inp) ==
    Begin("PubAck", src, [shortened |-> shortened], inp,
          PubAck_read_head(src, shortened))

ReadPubAck ==
    /\ pc = "idle"
    /\ \/ \E s \in ItemSeqs :
            PubAckFrom(Framed(<< 5, 57, 151 >>, s, Len(Region(s)), <<>>), FALSE,
                       Wire(s, Len(Region(s)), 0))
       \/ \E s \in CoreSeqs, rc \in {0, 151, 24}, sh \in BOOLEAN :
            \E d \in 0..(Len(Region(s)) + 1) :
               PubAckFrom(Framed(<< 5, 57, rc >>, s, d, << 0 >>), sh, Wire(s, d, 0))
       \/ \E s \in CoreSeqs, rc \in {0, 151}, sh \in BOOLEAN :
            LET full == Framed(<< 5, 57, rc >>, s, Len(Region(s)), <<>>) IN
            \E cut \in 1..Len(full) :
               PubAckFrom(SubSeq(full, 1, Len(full) - cut), sh,
                          Wire(s, Len(Region(s)), cut))

AuthFrom(src, inp) == Begin("Auth", src, NoCtx, inp, Auth_read_head(src))

ReadAuth ==
    /\ pc = "idle"
    /\ \/ \E s \in ItemSeqs :
            AuthFrom(Framed(<< 24 >>, s, Len(Region(s)), <<>>),
                     Wire(s, Len(Region(s)), 0))
       \/ \E s \in CoreSeqs, rc \in {0, 24, 151} :
            \E d \in 0..(Len(Region(s)) + 1) :
               AuthFrom(Framed(<< rc >>, s, d, << 0 >>), Wire(s, d, 0))
       \/ \E s \in CoreSeqs :
            LET full == Framed(<< 24 >>, s, Len(Region(s)), <<>>) IN
            \E cut \in 1..Len(full) :
               AuthFrom(SubSeq(full, 1, Len(full) - cut), Wire(s, Len(Region(s)), cut))

\* read_bool on a reader holding no byte, any one byte, or a byte and more
BoolSources == { <<>>, << 1, 0 >> } \cup { << b >> : b \in 0..255 }

ReadBool ==
    /\ pc = "idle"
    /\ \E src \in BoolSources :
         LET r == read_bool(src) IN
         Begin("Bool", src, NoCtx,
               [origin |-> "bytes", items |-> <<>>, declared |-> 0, cut |-> 0],
               Stop(r.n, 0, IF r.err = "none" THEN Good([bool |-> r.v]) ELSE Err(r.err)))

PublishFrom(src, q, rem, inp) ==
    Begin("Publish", src,
          [duplicate |-> FALSE, qos |-> q, retain |-> TRUE, remaining_size |-> rem],
          inp, Publish_read_head(src, q, rem))

PublishHead(q) ==
    write_utf8_string(Text) \o (IF q # 0 THEN << 5, 57 >> ELSE <<>>)

ReadPublish ==
    /\ pc = "idle"
    /\ \/ \E s \in ItemSeqs :
            LET full == Framed(PublishHead(1), s, Len(Region(s)), << 1, 2 >>) IN
            PublishFrom(full, 1, Len(full), Wire(s, Len(Region(s)), 0))
       \/ \E s \in CoreSeqs, q \in {0, 1, 2} :
            \E d \in 0..(Len(Region(s)) + 1) :
               LET full == Framed(PublishHead(q), s, d, << 1, 2 >>) IN
               PublishFrom(full, q, Len(full), Wire(s, d, 0))
       \/ \E s \in CoreSeqs, q \in {0, 1} :
            LET full == Framed(PublishHead(q), s, Len(Region(s)), << 1, 2 >>) IN
            \E cut \in 1..Len(full) :
               PublishFrom(SubSeq(full, 1, Len(full) - cut), q, Len(full),
                           Wire(s, Len(Region(s)), cut))
       \/ \E s \in CoreSeqs, q \in {0, 1} :
            LET full == Framed(PublishHead(q), s, Len(Region(s)), << 1, 2 >>) IN
            \E rem \in 0..Len(full) :
               PublishFrom(full \o << 9 >>, q, rem, Wire(s, Len(Region(s)), 0))
       \/ \E id \in BoolIds, b \in {0, 1, 2, 255}, cut \in {0, 3} :
            LET s == << Item(id, << b >>) >>
                full == Framed(PublishHead(1), s, 2, << 1, 2 >>) IN
            PublishFrom(SubSeq(full, 1, Len(full) - cut), 1, Len(full),
                        Wire(s, 2, cut))

SubAckFrom(src, rem, inp) ==
    Begin("SubAck", src, [remaining_size |-> rem], inp, SubAck_read_head(src, rem))

ReadSubAck ==
    /\ pc = "idle"
    /\ \/ \E s \in ItemSeqs :
            LET full == Framed(<< 5, 57 >>, s, Len(Region(s)), << 0, 1 >>) IN
            SubAckFrom(full, Len(full), Wire(s, Len(Region(s)), 0))
       \/ \E s \in CoreSeqs, codes \in {<<>>, << 0, 128 >>, << 24 >>} :
            \E d \in 0..(Len(Region(s)) + 1) :
               LET full == Framed(<< 5, 57 >>, s, d, codes) IN
               SubAckFrom(full, Len(full), Wire(s, d, 0))
       \/ \E s \in CoreSeqs :
            LET full == Framed(<< 5, 57 >>, s, Len(Region(s)), << 0, 1 >>) IN
            \E cut \in 1..Len(full) :
               SubAckFrom(SubSeq(full, 1, Len(full) - cut), Len(full),
                          Wire(s, Len(Region(s)), cut))
       \/ \E s \in CoreSeqs :
            LET full == Framed(<< 5, 57 >>, s, Len(Region(s)), << 0, 1 >>) IN
            \E rem \in 0..Len(full) :
               SubAckFrom(full \o << 9 >>, rem, Wire(s, Len(Region(s)), 0))

Next ==
    \/ EncodeProperty
    \/ ReadBool
    \/ WritePubAck
    \/ WriteAuth
    \/ WritePublish
    \/ WriteSubAck
    \/ ReadBackPubAck
    \/ ReadBackAuth
    \/ ReadBackPublish
    \/ ReadBackSubAck
    \/ ReadPubAck
    \/ ReadAuth
    \/ ReadPublish
    \/ ReadSubAck
    \/ read_property
    \/ PubAck_read_end
    \/ Auth_read_end
    \/ Publish_read_end
    \/ SubAck_read_code
    \/ SubAck_read_end

Spec == Init /\ [][Next]_vars

----------------------------------------------------------------------------
(* Two decodes on independent sources, their steps interleaved *)

\* the properties the two decodes meet: one that may not repeat, one that may
PairProps == { Item(id, PayloadBytes(id, Sample(id))) : id \in {31, 38} }

PairSeqs == SeqsUpTo(PairProps, MaxProps)

\* the state of the decode that is running
Running ==
    [pc |-> pc, kind |-> kind, source |-> source, pos |-> pos, ctx |-> ctx,
     rlimit |-> rlimit, dec |-> dec, acc |-> acc, last |-> last,
     result |-> result, input |-> input]

\* a decode begins on a packet of its own
StartDecode ==
    /\ pc = "idle"
    /\ \E s \in PairSeqs :
         LET d == Len(Region(s))
             method == << Item(21, PayloadBytes(21, Text)) >> IN
         \/ PubAckFrom(Framed(<< 5, 57, 0 >>, s, d, <<>>), FALSE, Wire(s, d, 0))
         \/ AuthFrom(Framed(<< 24 >>, method \o s, Len(Region(method)) + d, <<>>),
                     Wire(method \o s, Len(Region(method)) + d, 0))
         \/ LET full == Framed(PublishHead(1), s, d, << 1, 2 >>) IN
            PublishFrom(full, 1, Len(full), Wire(s, d, 0))
         \/ LET full == Framed(<< 5, 57 >>, s, d, << 0, 1 >>) IN
            SubAckFrom(full, Len(full), Wire(s, d, 0))

Switch_sharing_marked ==
    /\ peer' = Running
    /\ pc' = peer.pc
    /\ kind' = peer.kind
    /\ source' = peer.source
    /\ pos' = peer.pos
    /\ ctx' = peer.ctx
    /\ rlimit' = peer.rlimit
    /\ dec' = [peer.dec EXCEPT !.marked = dec.marked]
    /\ acc' = peer.acc
    /\ last' = peer.last
    /\ result' = peer.result
    /\ input' = peer.input
    /\ UNCHANGED << value, sink, wres >>

\* the running decode is suspended and the other one resumed: each has its
\* own reader, its own PropertiesDecoder (limit and marked) and its own locals
Switch ==
    /\ peer' = Running
    /\ pc' = peer.pc
    /\ kind' = peer.kind
    /\ source' = peer.source
    /\ pos' = peer.pos
    /\ ctx' = peer.ctx
    /\ rlimit' = peer.rlimit
    /\ dec' = peer.dec
    /\ acc' = peer.acc
    /\ last' = peer.last
    /\ result' = peer.result
    /\ input' = peer.input
    /\ UNCHANGED << value, sink, wres >>

NextPair ==
    \/ StartDecode
    \/ Switch
    \/ read_property
    \/ PubAck_read_end
    \/ Auth_read_end
    \/ Publish_read_end
    \/ SubAck_read_code
    \/ SubAck_read_end

SpecPair == Init /\ [][NextPair]_vars

----------------------------------------------------------------------------
(* What the claims speak of *)

\* the source holds one whole packet, framed as its properties ask
Exact ==
    /\ input.origin = "wire"
    /\ input.cut = 0
    /\ input.declared = Len(Region(input.items))
    /\ Outer(kind) => ctx.remaining_size = Len(source)

\* the properties that lie whole inside the declared region
RECURSIVE Inside(_, _)
Inside(items, room) ==
    IF items = <<>> \/ Len(ItemBytes(items[1])) > room THEN <<>>
    ELSE << items[1] >> \o Inside(Tail(items), room - Len(ItemBytes(items[1])))

RegionItems == Inside(input.items, input.declared)

Ids(items) == { items[i].id : i \in 1..Len(items) }

\* the kinds each framing's loop accepts
Allowed(k) ==
    CASE k = "Auth"    -> {21, 22, 31, 38}
      [] k = "PubAck"  -> {31, 38}
      [] k = "SubAck"  -> {38}
      [] k = "Publish" -> {1, 2, 35, 8, 9, 38, 11, 3}
      [] OTHER -> {}

----------------------------------------------------------------------------
(* PubAck: the shortened form *)

BarePubAck(x) ==
    x.reason_code = ReasonCode.Success /\ x.reason_string = <<>>
    /\ x.user_properties = <<>>

\* C1: PubAck.write of a value with reason code Success, no reason string
\* and no user properties emits exactly the 2-byte packet identifier and
\* returns 2.
C1_SuccessIsWrittenShortened ==
    (pc = "written" /\ kind = "PubAck" /\ BarePubAck(value))
        => /\ sink = write_two_byte_integer(value.packet_identifier)
           /\ wres = [err |-> "none", n |-> 2]

\* C2: PubAck.read of the bytes PubAck.write produced, shortened exactly when
\* 2 bytes were written, returns the value written.
C2_PubAckRoundTrip ==
    (pc = "done" /\ kind = "PubAck" /\ input.origin = "back")
        => result = Good(value)

----------------------------------------------------------------------------
(* Repeated properties *)

VbiOf(it) == read_variable_byte_integer(it.payload).v

PairOf(it) == read_property_value(it.payload, 38).v

Only(items, id) == SelectSeq(items, LAMBDA it : it.id = id)

UserValues(items) ==
    LET us == Only(items, 38) IN [i \in 1..Len(us) |-> PairOf(us[i])]

\* C3: Publish.read of a region holding several non-zero
\* SubscriptionIdentifier properties returns them all, in wire order.
C3_SeveralSubscriptionIdentifiers ==
    (/\ pc = "done" /\ kind = "Publish" /\ Exact
     /\ Len(input.items) >= 2
     /\ \A i \in 1..Len(input.items) :
            input.items[i].id = 11 /\ VbiOf(input.items[i]) # 0)
        => /\ result.tag = "Ok"
           /\ result.val.subscription_identifiers
                  = [i \in 1..Len(input.items) |-> VbiOf(input.items[i])]

\* the properties read so far are the first of the region, the ids seen are
\* theirs, and the user properties gathered are theirs in wire order
C4_Gathered ==
    (input.origin = "wire" /\ pc = "props")
        => /\ last.calls <= Len(input.items)
           /\ dec.marked = Ids(SubSeq(input.items, 1, last.calls)) \ {38}
           /\ acc.user_properties = UserValues(SubSeq(input.items, 1, last.calls))

\* a whole region of user properties alone decodes, whatever their number
C4_UsersDecode ==
    (/\ pc = "done" /\ Exact /\ dec # NoDecoder
     /\ Ids(input.items) \subseteq {38})
        => /\ last.err = "none"
           /\ last.calls = Len(input.items)
           /\ acc.user_properties = UserValues(input.items)
           /\ kind \in {"PubAck", "Publish"}
                 => /\ result.tag = "Ok"
                    /\ result.val.user_properties = UserValues(input.items)

\* a read that meets an id already seen, other than UserProperty's, fails
C4_SecondOccurrence ==
    (/\ last'.calls = last.calls + 1
     /\ last'.id \in dec.marked)
        => /\ last'.id # 38
           /\ last'.err = "ProtocolError"
           /\ pc' = "done"
           /\ result' = Err("ProtocolError")

ValidPublish(x) ==
    /\ (x.packet_identifier # <<>>) <=> (x.qos # QoS.AtMostOnce)
    /\ \A i \in 1..Len(x.subscription_identifiers) :
           x.subscription_identifiers[i] # 0

\* C5: Publish.read of the bytes Publish.write produced for a valid value,
\* with the same flags and remaining_size the count written, returns the
\* value written.
C5_PublishRoundTrip ==
    (pc = "done" /\ kind = "Publish" /\ input.origin = "back"
     /\ ValidPublish(value))
        => result = Good(value)

----------------------------------------------------------------------------
(* The bounds of the properties region *)

\* C6: when the properties loop ends without error the bytes consumed after
\* the length prefix are exactly the declared region length, and a property
\* that would extend past the region makes read fail without consuming bytes
\* beyond the region.
C6_RegionExact ==
    /\ dec.limit >= 0
    /\ pc = "props" => pos - dec.start = dec.len - dec.limit
    /\ (pc = "props" /\ ~has_properties(dec)) => pos = dec.start + dec.len
    /\ (pc = "done" /\ result.tag = "Ok" /\ dec # NoDecoder) => dec.limit = 0
    /\ (pc = "done" /\ last.err # "none") => pos <= dec.start + dec.len
    /\ (/\ pc = "done" /\ input.origin = "wire" /\ dec # NoDecoder
        /\ Len(Region(RegionItems)) # input.declared)
           => result.tag = "Err"

\* a property straddling the end of its region was refused
C6_Witness ==
    /\ pc = "done"
    /\ input.origin = "wire"
    /\ input.cut = 0
    /\ input.declared < Len(Region(input.items))
    /\ Len(Region(RegionItems)) < input.declared
    /\ last.calls = 2
    /\ result = Err("Io")
    /\ pos = dec.start + dec.len
    /\ pos < Len(source)

----------------------------------------------------------------------------
(* PubAck: reading the shortened form *)

\* C7: PubAck.read with shortened = true consumes exactly the 2 identifier
\* bytes and returns that identifier with Success, no reason string and no
\* user properties, whatever follows; with shortened = false it reads a
\* reason code byte and a properties region after the identifier.
C7_ShortenedRead ==
    /\ (/\ pc = "done" /\ kind = "PubAck" /\ ctx.shortened
        /\ Len(source) >= 2)
           => /\ pos = 2
              /\ result = Good([packet_identifier |-> source[1] * 256 + source[2],
                                 reason_code |-> ReasonCode.Success,
                                 reason_string |-> <<>>,
                                 user_properties |-> <<>>])
    /\ (/\ pc \in {"props", "done"} /\ kind = "PubAck" /\ ~ctx.shortened
        /\ (pc = "props" \/ result.tag = "Ok"))
           => /\ Len(source) >= 4
              /\ dec.start = 4
              /\ dec.len = source[4]
              /\ pos >= 4 + dec.len - dec.limit
              /\ source[3] \in LegalCodes("PubAck")
              /\ pc = "props" => acc.reason_code = source[3]
              /\ pc = "done" => result.val.reason_code = source[3]

\* a shortened read left the bytes after the identifier alone
C7_Witness ==
    /\ pc = "done"
    /\ kind = "PubAck"
    /\ ctx.shortened
    /\ Len(source) > 2
    /\ pos = 2
    /\ result.tag = "Ok"
    /\ result.val.reason_code = ReasonCode.Success

----------------------------------------------------------------------------
(* Auth: the authentication method is required *)

\* the region's properties were all read and accepted
LoopEnded == pc = "done" /\ dec # NoDecoder /\ ~has_properties(dec) /\ last.err = "none"

----------------------------------------------------------------------------
(* Properties a framing does not accept *)

\* the last read() decoded the id of a kind the framing does not accept
ForeignRead == last.calls >= 1 /\ last.id # 0 /\ last.id \notin Allowed(kind)

\* C9 as stated: a property of a kind outside the framing's allowed set makes
\* read fail with ProtocolError, whatever the property's payload.
C9_ForeignKindIsProtocolError ==
    (ForeignRead /\ last.err # "Io") => result = Err("ProtocolError")

\* C9, amended: a property of a kind outside the framing's allowed set makes
\* read fail, with ProtocolError when the property's payload decodes and
\* with the payload's own error when it does not (MalformedPacket for a
\* ReceiveMaximum of 0).
C9_ForeignKindFails ==
    ForeignRead
        => /\ pc = "done"
           /\ result.tag = "Err"
           /\ last.err = "none" => result.err = "ProtocolError"
           /\ last.err # "none" => result.err = last.err
           /\ last.err = "MalformedPacket" => last.id = 33

\* a PubAck carrying a well-formed ReceiveMaximum was refused
C9_Witness ==
    /\ pc = "done"
    /\ kind = "PubAck"
    /\ last.id = 33
    /\ last.err = "none"
    /\ result = Err("ProtocolError")

----------------------------------------------------------------------------
(* ReceiveMaximum of zero *)

\* C10: ReceiveMaximum 0 fails with MalformedPacket, never ProtocolError,
\* when Property::ReceiveMaximum(0) is encoded (before any default elision)
\* and when a ReceiveMaximum property with payload 0 is decoded.
C10_ReceiveMaximumZero ==
    /\ (pc = "written" /\ kind = "Property" /\ value.id = 33 /\ Encoded.v = 0)
           => wres.err = "MalformedPacket" /\ sink = <<>>
    /\ (/\ last.calls >= 1 /\ last.id = 33 /\ last.n = 3
        /\ source[last.end - 1] = 0 /\ source[last.end] = 0)
           => /\ last.err = "MalformedPacket"
              /\ pc = "done"
              /\ result = Err("MalformedPacket")

\* an Auth whose region holds a ReceiveMaximum of 0 was refused as malformed
C10_Witness ==
    /\ pc = "done"
    /\ kind = "Auth"
    /\ last.id = 33
    /\ last.n = 3
    /\ source[pos] = 0
    /\ result = Err("MalformedPacket")

----------------------------------------------------------------------------
(* SubscriptionIdentifier of zero *)

\* C11: SubscriptionIdentifier 0 fails with ProtocolError when
\* Property::SubscriptionIdentifier(0) is encoded and when a
\* SubscriptionIdentifier whose payload is 0 is decoded, so no Publish that
\* Publish.read returns holds 0 among its subscription_identifiers.
C11_SubscriptionIdentifierZero ==
    /\ (pc = "written" /\ kind = "Property" /\ value.id = 11 /\ Encoded.v = 0)
           => wres.err = "ProtocolError" /\ sink = <<>>
    /\ (/\ last.calls >= 1 /\ last.id = 11 /\ last.n = 2
        /\ source[last.end] = 0)
           => /\ last.err = "ProtocolError"
              /\ pc = "done"
              /\ result = Err("ProtocolError")
    /\ (kind = "Publish" /\ pc = "props")
           => \A i \in 1..Len(acc.subscription_identifiers) :
                  acc.subscription_identifiers[i] # 0
    /\ (kind = "Publish" /\ pc = "done" /\ result.tag = "Ok")
           => \A i \in 1..Len(result.val.subscription_identifiers) :
                  result.val.subscription_identifiers[i] # 0

\* a Publish whose region holds a SubscriptionIdentifier of 0 was refused
C11_Witness ==
    /\ pc = "done"
    /\ kind = "Publish"
    /\ input.origin = "wire"
    /\ last.calls = 1
    /\ last.id = 11
    /\ last.n = 2
    /\ source[pos] = 0
    /\ result = Err("ProtocolError")

----------------------------------------------------------------------------
(* Default elision *)

\* the value handed to Property::encode is its variant's default
AtDefault(p) == HasDefault(p.id) /\ p.v = DefaultOf(p.id)

----------------------------------------------------------------------------
(* Publish: the packet identifier *)

\* the bytes of the packet identifier a Publish of this qos carries
IdBytes(qos) == IF qos # QoS.AtMostOnce THEN 2 ELSE 0

\* C13: Publish.read returns packet_identifier = Some(_) exactly when the qos
\* passed in is not AtMostOnce, reading 2 bytes for it only then;
\* Publish.write emits the 2-byte identifier only when qos is not AtMostOnce
\* and fails with ProtocolError when qos is not AtMostOnce and
\* packet_identifier is None.
C13_PacketIdentifierGating ==
    /\ (kind = "Publish" /\ pc = "done" /\ result.tag = "Ok")
           => ((result.val.packet_identifier # <<>>) <=> (ctx.qos # QoS.AtMostOnce))
    /\ (kind = "Publish" /\ pc \in {"props", "done"} /\ dec # NoDecoder)
           => LET t == source[1] * 256 + source[2] IN
              /\ dec.start = 2 + t + IdBytes(ctx.qos) + 1
              /\ pc = "props" =>
                    acc.packet_identifier
                        = IF ctx.qos # QoS.AtMostOnce
                          THEN << source[t + 3] * 256 + source[t + 4] >>
                          ELSE <<>>
    /\ (kind = "Publish" /\ pc = "written" /\ wres.err = "none")
           => LET at == Len(value.topic_name) + 2 + IdBytes(value.qos) IN
              /\ Len(sink) = at + 1 + sink[at + 1] + Len(value.message)
              /\ value.qos # QoS.AtMostOnce =>
                    SubSeq(sink, at - 1, at)
                        = write_two_byte_integer(value.packet_identifier[1])
    /\ (/\ kind = "Publish" /\ pc = "written"
        /\ value.qos # QoS.AtMostOnce /\ value.packet_identifier = <<>>)
           => wres.err = "ProtocolError"

\* a Publish read at AtMostOnce came back without a packet identifier, and
\* its properties region began right after the topic name
C13_Witness ==
    /\ pc = "done"
    /\ kind = "Publish"
    /\ input.origin = "wire"
    /\ ctx.qos = QoS.AtMostOnce
    /\ result.tag = "Ok"
    /\ result.val.packet_identifier = <<>>
    /\ dec.start = 4

----------------------------------------------------------------------------
(* The count write returns *)

\* C14: in every framing, when write succeeds the count it returns is the
\* number of bytes it appended to the sink.
C14_WriteCount ==
    (pc = "written" /\ kind \in {"Auth", "PubAck", "Publish", "SubAck"}
     /\ wres.err = "none")
        => wres.n = Len(sink)

\* a SubAck with user properties and two reason codes was written
C14_Witness ==
    /\ pc = "written"
    /\ kind = "SubAck"
    /\ wres.err = "none"
    /\ Len(value.user_properties) >= 1
    /\ Len(value.reason_codes) = 2
    /\ wres.n = Len(sink)
    /\ wres.n > 5

----------------------------------------------------------------------------
(* Booleans *)

----------------------------------------------------------------------------
(* SubAck: the reason codes *)

\* where the properties region of the decode at work ends
RegionEnd == dec.start + dec.len

\* C16: after the packet identifier and the properties region SubAck.read
\* decodes one reason code per remaining byte until remaining_size bytes of
\* the packet are consumed: on success the codes are as many as
\* remaining_size less the identifier, the length prefix and the properties,
\* and a byte that is no legal SubAck reason code aborts the decode.
C16_SubAckReasonCodes ==
    /\ (kind = "SubAck" /\ pc = "codes")
           => /\ pos > RegionEnd
              /\ acc.reason_codes = SubSeq(source, RegionEnd + 1, pos)
    /\ (kind = "SubAck" /\ pc = "done" /\ result.tag = "Ok")
           => /\ pos = ctx.remaining_size
              /\ Len(result.val.reason_codes) = ctx.remaining_size - RegionEnd
              /\ result.val.reason_codes
                     = SubSeq(source, RegionEnd + 1, ctx.remaining_size)
              /\ \A i \in 1..Len(result.val.reason_codes) :
                     result.val.reason_codes[i] \in LegalCodes("SubAck")
    /\ (/\ kind = "SubAck" /\ pc = "done" /\ dec # NoDecoder
        /\ ~has_properties(dec) /\ last.err = "none"
        /\ pos > RegionEnd /\ source[pos] \notin LegalCodes("SubAck"))
           => result = Err("ProtocolError")

\* a SubAck whose trailer holds the byte 24, no SubAck reason code, was refused
C16_Witness ==
    /\ pc = "done"
    /\ kind = "SubAck"
    /\ dec # NoDecoder
    /\ ~has_properties(dec)
    /\ pos = RegionEnd + 1
    /\ source[pos] = 24
    /\ result = Err("ProtocolError")

----------------------------------------------------------------------------
(* A source that ends early *)

\* the source was cut short of bytes the packet promises: the whole packet
\* but for its last `cut` bytes (a shortened PubAck promises its 2 bytes)
EndsEarly ==
    /\ input.origin = "wire"
    /\ input.cut > 0
    /\ (kind = "PubAck" /\ ctx.shortened) => Len(source) < 2

\* a property that was there was refused: as a duplicate or for its payload
\* by the decoder, or for its kind by the framing
Refused ==
    /\ last.calls >= 1
    /\ result.tag = "Err"
    /\ \/ last.err = result.err /\ last.err # "none"
       \/ last.err = "none" /\ ForeignRead /\ result.err = "ProtocolError"

\* C17: when the byte source ends before the bytes promised by a length
\* prefix, a properties region length or the declared remaining length were
\* supplied, read fails (with the I/O error, unless the bytes that were
\* there are themselves refused) and returns no packet value.
C17_AbruptEnd ==
    (pc = "done" /\ EndsEarly)
        => /\ result.tag = "Err"
           /\ result.err # "Io" => Refused

\* the same, for the framings other than Publish
C17_AbruptEndButPublish ==
    (pc = "done" /\ EndsEarly /\ kind # "Publish")
        => /\ result.tag = "Err"
           /\ result.err # "Io" => Refused

----------------------------------------------------------------------------
(* Independent decodes *)

Framings == {"Auth", "PubAck", "Publish", "SubAck"}

\* the step by step read of a framing returns what the read run as one call
\* returns
ReadIsRead ==
    (pc = "done" /\ kind \in Framings) => result = read(kind, source, ctx)

\* the ids a decode has marked are those of the properties it has read in
\* its own region
OwnMarks(t) ==
    t.pc \in {"props", "codes", "done"}
        => /\ t.last.calls = 0 => t.dec.marked = {}
           /\ t.dec.marked
                  \subseteq Ids(SubSeq(t.input.items, 1, t.last.calls))

\* C18: two decodes on independent sources, their steps interleaved in any
\* order, each return what the decode run alone returns; the set of ids seen
\* is created empty by every PropertiesDecoder::take and holds only ids of
\* the decode's own region, so an id seen in one packet never causes a
\* ProtocolError in the other.
C18_IndependentDecodes ==
    /\ pc = "done" => result = read(kind, source, ctx)
    /\ peer.pc = "done" => peer.result = read(peer.kind, peer.source, peer.ctx)
    /\ OwnMarks(Running)
    /\ OwnMarks(peer)

\* two PubAcks each carrying one reason string were decoded with their steps
\* interleaved, and both came back Ok
C18_Witness ==
    /\ pc = "done"
    /\ peer.pc = "done"
    /\ kind = "PubAck"
    /\ peer.kind = "PubAck"
    /\ Ids(input.items) = {31}
    /\ Ids(peer.input.items) = {31}
    /\ peer.last.end > 0
    /\ result.tag = "Ok"
    /\ peer.result.tag = "Ok"

----------------------------------------------------------------------------
(* Publish: the payload *)

\* C19: Publish.read never consumes more than remaining_size bytes of the
\* source; the payload it returns is the bytes between the end of the
\* properties region and offset remaining_size, copied verbatim, and the
\* bytes of the source after that offset are left unread.
C19_PublishWithinRemainingSize ==
    /\ (kind = "Publish" /\ pc \in {"props", "done"})
           => /\ pos <= ctx.remaining_size
              /\ pos + rlimit = ctx.remaining_size
    /\ (kind = "Publish" /\ pc = "done" /\ result.tag = "Ok")
           => /\ result.val.message = SubSeq(source, RegionEnd + 1, pos)
              /\ Len(source) >= ctx.remaining_size
                    => /\ pos = ctx.remaining_size
                       /\ result.val.message
                              = SubSeq(source, RegionEnd + 1, ctx.remaining_size)

\* a Publish was read from a source holding a byte of the next packet, which
\* was left unread
C19_Witness ==
    /\ pc = "done"
    /\ kind = "Publish"
    /\ result.tag = "Ok"
    /\ Len(source) > ctx.remaining_size
    /\ pos = ctx.remaining_size
    /\ result.val.message = << 1, 2 >>

----------------------------------------------------------------------------
(* Termination *)

InLoop == pc \in {"props", "codes"}

\* the bytes the bounded readers of the decode at work may still yield
Budget == dec.limit + rlimit

\* the read at work has a statement to run next: a turn of the properties
\* loop, a turn of the reason code loop, or what follows the loops
CanStep ==
    \/ pc = "props" /\ has_properties(dec)
    \/ pc = "props" /\ ~has_properties(dec) /\ kind \in {"Auth", "PubAck", "Publish"}
    \/ /\ kind = "SubAck"
       /\ (pc = "props" /\ ~has_properties(dec)) \/ pc = "codes"
       /\ rlimit > 0 \/ rlimit = 0

\* every turn of a loop that does not end the read lowers the budget
C20_Progress == (InLoop /\ InLoop') => (Budget' < Budget /\ Budget' >= 0)

\* C20: the properties loop of each framing and the reason code loop of
\* SubAck.read terminate: every turn either strictly lowers the remaining
\* limit of the bounded reader, which is never negative, or returns (a value
\* or an error), and a read inside a loop always has a next step to take; so
\* no input makes a decode loop forever.
C20_Terminates ==
    /\ [][C20_Progress]_vars
    /\ [](InLoop => (Budget >= 0 /\ CanStep))

\* a SubAck read went through both loops and returned
C20_Witness ==
    /\ pc = "done"
    /\ kind = "SubAck"
    /\ last.calls = MaxProps
    /\ Len(acc.reason_codes) = 2
    /\ result.tag = "Ok"
    /\ Budget = 0

----------------------------------------------------------------------------
(* Writes that fail *)

\* Publish.write returned an error; the sink was empty before the call
FailedPublishWrite ==
    pc = "written" /\ kind = "Publish" /\ wres.err # "none"

C21_WrittenBeforeFailure ==
    FailedPublishWrite =>
        /\ wres.err = "ProtocolError"
        /\ sink = write_utf8_string(value.topic_name)
                  \o IF has_packet_identifier(value.qos)
                        /\ value.packet_identifier # <<>>
                     THEN write_two_byte_integer(value.packet_identifier[1])
                     ELSE <<>>

====
